---- MODULE Spec2Model ----
(***************************************************************************)
(* Model of src/app/gui_app.py: the transcription job worker               *)
(* (TranscribeWorker.run and its helpers), the splitting subprocess it     *)
(* drives through run_stream, and the part of MainWindow that creates      *)
(* workers, requests cancellation and handles the terminal signals.        *)
(*                                                                         *)
(* Conventions.                                                            *)
(*  - A Python str that is written to the output file or rendered for the  *)
(*    eta signal is a sequence of one-character strings; "\n" is the       *)
(*    newline character.  Fixed status/log/error texts are TLA+ strings.   *)
(*  - A media file is identified by the duration (seconds) ffprobe reports *)
(*    for it; a path is <<d>> and the absent path (Python None) is <<>>.   *)
(*    All selectable files share one stem, hence one out_txt.              *)
(*  - Python floats are modelled by integers; int(x) of a non-negative     *)
(*    quotient is integer division.                                        *)
(*  - A chunk file in out_dir/_chunks is "this" when the splitting process *)
(*    of the current worker wrote it and "earlier" when it was left by the *)
(*    splitting process of a previous worker.                              *)
(***************************************************************************)
EXTENDS Integers, Sequences, FiniteSets, TLC

\* ------------------------------------------------------------------ bounds

\* Media durations offered by the file dialog: 50, 100, ... 50*MaxDur seconds.
MaxDur == 3

\* spin_chunk takes the values 1..MaxChunkMin (minutes).
MaxChunkMin == 2

\* Unread output lines of the splitting process held in the pipe.
MaxLines == 1

Durations == {50 * k : k \in 1..MaxDur}

ChunkMins == 1..MaxChunkMin

\* Wall-clock seconds one engine call on a chunk may take.
EngineSecs == {0, 30}

\* ----------------------------------------------------------------- strings

NL == "\n"

None == "None"

\* A path that does not exist, and a file with content c.
NoFile == [exists |-> FALSE, content |-> <<>>]

File(c) == [exists |-> TRUE, content |-> c]

IsSpace(ch) == ch \in {" ", NL}

RECURSIVE LStrip(_)
LStrip(s) == IF s # <<>> /\ IsSpace(Head(s)) THEN LStrip(Tail(s)) ELSE s

RECURSIVE RStrip(_)
RStrip(s) ==
    IF s # <<>> /\ IsSpace(s[Len(s)]) THEN RStrip(SubSeq(s, 1, Len(s) - 1)) ELSE s

\* str.strip()
Strip(s) == RStrip(LStrip(s))

DigitChars == <<"0", "1", "2", "3", "4", "5", "6", "7", "8", "9">>

RECURSIVE Dec(_)
Dec(n) == IF n < 10 THEN <<DigitChars[n + 1]>>
          ELSE Dec(n \div 10) \o <<DigitChars[(n % 10) + 1]>>

\* f"{n:02d}"
D02(n) == IF n < 10 THEN <<"0">> \o Dec(n) ELSE Dec(n)

Max(a, b) == IF a >= b THEN a ELSE b

Min(a, b) == IF a <= b THEN a ELSE b

\* math.ceil(a / b) for a >= 0, b > 0
CeilDiv(a, b) == (a + b - 1) \div b

EtaPrefix == <<"E", "T", "A", ":", " ">>

\* The character U+2026 (horizontal ellipsis).
Ellipsis == "..."

\* "ETA: estimating" followed by U+2026
EtaEstimating ==
    EtaPrefix \o <<"e", "s", "t", "i", "m", "a", "t", "i", "n", "g", Ellipsis>>

\* "ETA: 00:00"
EtaZero == EtaPrefix \o <<"0", "0", ":", "0", "0">>

\* A fmt_eta without the hours field: minutes run past 59.
fmt_eta_no_hours(seconds) ==
    LET secs == Max(0, seconds)
    IN  EtaPrefix \o D02(secs \div 60) \o <<":">> \o D02(secs % 60)

\* TranscribeWorker.fmt_eta
fmt_eta(seconds) ==
    LET secs == Max(0, seconds)
        h == secs \div 3600
        m == (secs % 3600) \div 60
        s == secs % 60
    IN  IF h > 0
        THEN EtaPrefix \o D02(h) \o <<":">> \o D02(m) \o <<":">> \o D02(s)
        ELSE EtaPrefix \o D02(m) \o <<":">> \o D02(s)

\* ------------------------------------------------------------------- state

VARIABLES
    \* MainWindow
    selected_file,   \* <<>> (None) or <<d>>, the chosen media file
    chk_chunking,    \* chk_chunking.isChecked()
    spin_chunk,      \* spin_chunk.value()
    btn_choose,      \* btn_choose / model_combo / chk_chunking / btn_outdir enabled
    btn_start,       \* btn_start enabled
    btn_cancel,      \* btn_cancel enabled
    worker,          \* TRUE once self.worker holds a TranscribeWorker
    queued,          \* terminal signal queued to the GUI thread, or None
    \* TranscribeWorker fields
    input_file, use_chunking, chunk_seconds, w_cancel, w_proc,
    \* TranscribeWorker.run position and locals
    pc, total_sec, chunks, i, elapsed,
    \* file system and subprocess
    out_txt,         \* NoFile or the content of out_dir/<stem>.txt
    chunks_dir,      \* the files chunk_000.mp3, chunk_001.mp3, ... of out_dir/_chunks
    proc,            \* the ffmpeg process started by run_stream
    \* history of the current worker
    events,          \* signals emitted, in order
    engineLog,       \* engine calls made, in order
    written,         \* text this worker has written to out_txt
    cancelAt,        \* where the worker was when request_cancel first ran
    prior,           \* whether out_txt held text when the worker was created
    probed           \* outcomes of the get_duration_seconds calls, in order

guiVars == <<selected_file, chk_chunking, spin_chunk, btn_choose, btn_start, btn_cancel,
             worker, queued>>

fieldVars == <<input_file, use_chunking, chunk_seconds, w_cancel, w_proc>>

localVars == <<pc, total_sec, chunks, i, elapsed>>

envVars == <<out_txt, chunks_dir, proc>>

histVars == <<events, engineLog, written, cancelAt, prior, probed>>

vars == <<guiVars, fieldVars, localVars, envVars, histVars>>

\* proc.state: "none" (not started), "running", "hung" (alive, silent for
\* ever), "exited".  proc.segs: segment files it has written.  proc.lines:
\* output lines not yet read from its pipe.  proc.how: "own" (exited by
\* itself), "terminated" or "killed".
NoProc == [state |-> "none", lines |-> 0, segs |-> 0, rc |-> 0, how |-> "none"]

NeverCancelled == [pc |-> "never", n |-> 0, alive |-> FALSE]

Ev(sig, val) == [sig |-> sig, val |-> val]

TerminalSigs == {"done", "cancelled", "error"}

\* MainWindow.__init__ followed by load_settings
Init ==
    /\ selected_file = <<>>
    /\ chk_chunking \in BOOLEAN
    /\ spin_chunk \in ChunkMins
    /\ btn_choose = TRUE
    /\ btn_start = FALSE
    /\ btn_cancel = FALSE
    /\ worker = FALSE
    /\ queued = None
    /\ input_file = <<>>
    /\ use_chunking = FALSE
    /\ chunk_seconds = 0
    /\ w_cancel = FALSE
    /\ w_proc = None
    /\ pc = "idle"
    /\ total_sec = 0
    /\ chunks = <<>>
    /\ i = 0
    /\ elapsed = 0
    /\ out_txt = NoFile
    /\ chunks_dir = <<>>
    /\ proc = NoProc
    /\ events = <<>>
    /\ engineLog = <<>>
    /\ written = <<>>
    /\ cancelAt = NeverCancelled
    /\ prior = FALSE
    /\ probed = <<>>

\* ------------------------------------------------------------- MainWindow

\* A set_controls_enabled that enables Start whenever a file is selected.
set_controls_enabled_start_kept(enabled) ==
    /\ btn_choose' = enabled
    /\ btn_start' = (selected_file # <<>>)
    /\ btn_cancel' = ~enabled

\* MainWindow.set_controls_enabled
set_controls_enabled(enabled) ==
    /\ btn_choose' = enabled
    /\ btn_start' = (enabled /\ selected_file # <<>>)
    /\ btn_cancel' = ~enabled

\* MainWindow.choose_file, the dialog returning a file
choose_file ==
    /\ btn_choose
    /\ \E f \in Durations : selected_file' = <<f>>
    /\ btn_start' = TRUE
    /\ UNCHANGED <<chk_chunking, spin_chunk, btn_choose, btn_cancel, worker, queued>>
    /\ UNCHANGED <<fieldVars, localVars, envVars, histVars>>

\* The user toggling chk_chunking
toggle_chunking ==
    /\ btn_choose
    /\ chk_chunking' = ~chk_chunking
    /\ UNCHANGED <<selected_file, spin_chunk, btn_choose, btn_start, btn_cancel, worker,
                   queued>>
    /\ UNCHANGED <<fieldVars, localVars, envVars, histVars>>

\* The user editing spin_chunk (enabled with the controls and chk_chunking)
set_chunk_min ==
    /\ btn_choose
    /\ chk_chunking
    /\ \E v \in ChunkMins \ {spin_chunk} : spin_chunk' = v
    /\ UNCHANGED <<selected_file, chk_chunking, btn_choose, btn_start, btn_cancel, worker,
                   queued>>
    /\ UNCHANGED <<fieldVars, localVars, envVars, histVars>>

\* A chunk file that stays in _chunks when a new worker is created was written
\* by an earlier worker's splitting process.
Aged(dir) == [k \in 1..Len(dir) |-> "earlier"]

\* MainWindow.start_job: TranscribeWorker.__init__ and worker.start()
start_job ==
    /\ btn_start
    /\ selected_file # <<>>
    /\ set_controls_enabled(FALSE)
    /\ worker' = TRUE
    /\ input_file' = selected_file
    /\ use_chunking' = chk_chunking
    /\ chunk_seconds' = spin_chunk * 60
    /\ w_cancel' = FALSE
    /\ w_proc' = None
    /\ pc' = "start"
    /\ total_sec' = 0
    /\ chunks' = <<>>
    /\ i' = 0
    /\ elapsed' = 0
    /\ chunks_dir' = Aged(chunks_dir)
    /\ proc' = NoProc
    /\ events' = <<>>
    /\ engineLog' = <<>>
    /\ written' = <<>>
    /\ cancelAt' = NeverCancelled
    /\ prior' = (out_txt.exists /\ out_txt.content # <<>>)
    /\ probed' = <<>>
    /\ UNCHANGED <<selected_file, chk_chunking, spin_chunk, queued, out_txt>>

\* p.poll() is None
Alive(p) == p.state \in {"running", "hung"}

\* What p.terminate(); time.sleep(0.2); if p.poll() is None: p.kill() leaves of
\* a live process: it ended on the terminate or had to be killed.
Stopped(p, how) == [p EXCEPT !.state = "exited", !.rc = 1, !.how = how]

\* A request_cancel that reports the cancellation itself, by emitting the
\* cancelled signal from the caller's thread the first time it runs.
request_cancel_emitting ==
    /\ w_cancel' = TRUE
    /\ events' = IF w_cancel THEN events ELSE Append(events, Ev("cancelled", ""))
    /\ cancelAt' = IF w_cancel THEN cancelAt
                   ELSE [pc |-> pc, n |-> Len(engineLog), alive |-> Alive(proc)]
    /\ UNCHANGED <<guiVars, input_file, use_chunking, chunk_seconds, w_proc>>
    /\ UNCHANGED <<localVars, envVars, engineLog, written, prior, probed>>

\* TranscribeWorker.request_cancel
request_cancel ==
    /\ w_cancel' = TRUE
    /\ IF w_proc # None /\ Alive(proc)
       THEN \E how \in {"terminated", "killed"} : proc' = Stopped(proc, how)
       ELSE proc' = proc
    /\ cancelAt' = IF w_cancel THEN cancelAt
                   ELSE [pc |-> pc, n |-> Len(engineLog), alive |-> Alive(proc)]
    /\ UNCHANGED <<guiVars, input_file, use_chunking, chunk_seconds, w_proc>>
    /\ UNCHANGED <<localVars, out_txt, chunks_dir, events, engineLog, written, prior, probed>>

\* MainWindow.cancel_job, the Cancel button
cancel_job ==
    /\ btn_cancel
    /\ worker
    /\ request_cancel

\* A direct call of TranscribeWorker.request_cancel on the worker object
request_cancel_call ==
    /\ worker
    /\ ~btn_cancel
    /\ request_cancel

\* MainWindow.on_done / on_error / on_cancelled, run by the GUI thread for the
\* queued terminal signal
on_terminal(sig) ==
    /\ queued = sig
    /\ queued' = None
    /\ set_controls_enabled(TRUE)
    /\ UNCHANGED <<selected_file, chk_chunking, spin_chunk, worker>>
    /\ UNCHANGED <<fieldVars, localVars, envVars, histVars>>

on_done == on_terminal("done")

on_error == on_terminal("error")

on_cancelled == on_terminal("cancelled")

\* ---------------------------------------------------- the ffmpeg process

\* The directory after the process wrote chunk_<k-1>.mp3 (ffmpeg -y overwrites).
WriteChunk(dir, k) ==
    IF k <= Len(dir) THEN [dir EXCEPT ![k] = "this"] ELSE Append(dir, "this")

\* Segments ffmpeg cuts from the input: -f segment -segment_time chunk_seconds
Planned == CeilDiv(input_file[1], chunk_seconds)

\* The process writes its next segment file.
proc_segment ==
    /\ proc.state = "running"
    /\ proc.segs < Planned
    /\ proc' = [proc EXCEPT !.segs = @ + 1]
    /\ chunks_dir' = WriteChunk(chunks_dir, proc.segs + 1)
    /\ UNCHANGED <<guiVars, fieldVars, localVars, out_txt, histVars>>

\* The process prints a diagnostic line (-loglevel error) to its pipe.
proc_line ==
    /\ proc.state = "running"
    /\ proc.lines < MaxLines
    /\ proc' = [proc EXCEPT !.lines = @ + 1]
    /\ UNCHANGED <<guiVars, fieldVars, localVars, out_txt, chunks_dir, histVars>>

\* The process exits by itself: with status 0 after it wrote every segment, or
\* without having written any (the success without usable segments of the
\* SegmentFailed case); with a non-zero status at any moment.
proc_exit ==
    /\ proc.state = "running"
    /\ \E rc \in {0, 1} :
         /\ rc = 0 => proc.segs \in {0, Planned}
         /\ proc' = [proc EXCEPT !.state = "exited", !.rc = rc, !.how = "own"]
    /\ UNCHANGED <<guiVars, fieldVars, localVars, out_txt, chunks_dir, histVars>>

\* The process hangs: it stays alive, prints nothing more and never exits.
proc_hang ==
    /\ proc.state = "running"
    /\ proc' = [proc EXCEPT !.state = "hung"]
    /\ UNCHANGED <<guiVars, fieldVars, localVars, out_txt, chunks_dir, histVars>>

\* ------------------------------------------------------- TranscribeWorker

\* A worker whose checks never see the flag.
is_cancelled_never == FALSE

\* TranscribeWorker.is_cancelled
is_cancelled == w_cancel

\* split_to_chunks testing the exit status before the flag.
split_result_status_first(cancelled, rc) ==
    IF rc # 0 THEN "error" ELSE IF cancelled THEN "cancelled" ELSE "ok"

\* split_to_chunks, lines 219-224, after run_stream returned status rc
split_result(cancelled, rc) ==
    IF cancelled THEN "cancelled" ELSE IF rc # 0 THEN "error" ELSE "ok"

\* run without its except KeyboardInterrupt clause: the exception leaves run
\* and the thread ends without a signal.
Terminal_interrupt_uncaught(evs, sig, val) ==
    IF sig = "cancelled"
    THEN /\ events' = evs
         /\ queued' = queued
         /\ pc' = "returned"
    ELSE /\ events' = Append(evs, Ev(sig, val))
         /\ queued' = sig
         /\ pc' = "returned"

\* A run that resets the ETA label after it has emitted its terminal signal.
Terminal_then_eta(evs, sig, val) ==
    /\ events' = Append(evs, Ev(sig, val)) \o <<Ev("eta", EtaZero)>>
    /\ queued' = sig
    /\ pc' = "returned"

\* The except clauses of run and the final done.emit: one terminal signal is
\* emitted after the events evs and run returns.
Terminal(evs, sig, val) ==
    /\ events' = Append(evs, Ev(sig, val))
    /\ queued' = sig
    /\ pc' = "returned"

\* run without the removal of the earlier output file.
unlink_skipped(f) == f

\* if out_txt.exists(): out_txt.unlink()
unlink_if_exists(f) == IF f.exists THEN NoFile ELSE f

\* out_txt.write_text(text + "\n")
write_text(f, text) == File(text \o <<NL>>)

\* The chunk's text written with open("w"): the file is truncated first.
append_text_truncating(f, text) ==
    File(IF text # <<>> THEN Strip(text) \o <<NL>> ELSE <<>>)

\* The chunk's text written at the start of the file instead of its end.
append_text_prepending(f, text) ==
    File((IF text # <<>> THEN Strip(text) \o <<NL>> ELSE <<>>) \o f.content)

\* with out_txt.open("a") as f: if text: f.write(text.strip() + "\n")
append_text(f, text) ==
    File(f.content \o (IF text # <<>> THEN Strip(text) \o <<NL>> ELSE <<>>))

\* What one write adds to the text this worker has written.
ChunkLine(text) == IF text # <<>> THEN Strip(text) \o <<NL>> ELSE <<>>

\* run, lines 236-249: the output file of an earlier run is removed
run_start ==
    /\ pc = "start"
    /\ out_txt' = unlink_if_exists(out_txt)
    /\ events' = Append(events, Ev("status", "Reading duration"))
    /\ pc' = "probe"
    /\ UNCHANGED <<guiVars, fieldVars, total_sec, chunks, i, elapsed, chunks_dir, proc,
                   engineLog, written, cancelAt, prior, probed>>

\* a get_duration_seconds that returns whatever ffprobe printed on a non-zero
\* exit status
probe_failed_rc_ignored(o) == o \notin {"ok", "rc"}

\* get_duration_seconds, lines 186-195: get_tool raises, rc != 0 raises, or
\* float() raises
probe_failed(o) == o # "ok"

\* How get_duration_seconds can end: a duration, ffprobe not found (get_tool),
\* a non-zero exit status, or output float() cannot parse.
ProbeOutcomes == {"ok", "not_found", "rc", "unparsable"}

ProbeError(o) ==
    CASE o = "not_found" -> "ffprobe not found"
      [] o = "rc" -> "ffprobe output"
      [] OTHER -> "could not convert string to float"

\* run, lines 253-259: the events before the whole-file engine call
NoChunkingEvents ==
    <<Ev("overall", 0), Ev("eta", EtaEstimating), Ev("status", "Transcribing")>>

\* run, line 272
PlannedLog == Ev("log", <<"Splitting into", chunk_seconds \div 60,
                          Max(1, CeilDiv(input_file[1], chunk_seconds))>>)

\* run, lines 250-272: get_duration_seconds returns or raises; without chunking
\* the worker goes on to the whole-file engine call unless cancelled
probe ==
    /\ pc = "probe"
    /\ \E o \in ProbeOutcomes :
         /\ probed' = Append(probed, o)
         /\ IF probe_failed(o)
            THEN /\ Terminal(events, "error", ProbeError(o))
                 /\ UNCHANGED total_sec
            ELSE /\ total_sec' = input_file[1]
                 /\ IF ~use_chunking
                    THEN IF is_cancelled
                         THEN Terminal(events \o NoChunkingEvents, "cancelled", "")
                         ELSE /\ events' = events \o NoChunkingEvents
                              /\ pc' = "whisper_whole"
                              /\ UNCHANGED queued
                    ELSE /\ events' = Append(events, PlannedLog)
                         /\ pc' = "split"
                         /\ UNCHANGED queued
    /\ UNCHANGED <<selected_file, chk_chunking, spin_chunk, btn_choose, btn_start,
                   btn_cancel, worker>>
    /\ UNCHANGED <<fieldVars, chunks, i, elapsed, envVars, engineLog, written, cancelAt, prior>>

\* split_to_chunks, lines 198-216 up to Popen in run_stream: get_tool("ffmpeg")
\* raises, or the process is started
split_launch ==
    /\ pc = "split"
    /\ \E found \in BOOLEAN :
         IF ~found
         THEN /\ Terminal(events, "error", "ffmpeg not found")
              /\ UNCHANGED proc
         ELSE /\ events' = Append(events, Ev("status", "Splitting audio into chunks"))
              /\ proc' = [NoProc EXCEPT !.state = "running"]
              /\ pc' = "stream"
              /\ UNCHANGED queued
    /\ UNCHANGED <<selected_file, chk_chunking, spin_chunk, btn_choose, btn_start,
                   btn_cancel, worker>>
    /\ UNCHANGED <<fieldVars, total_sec, chunks, i, elapsed, out_txt, chunks_dir,
                   engineLog, written, cancelAt, prior, probed>>

\* run_stream, lines 104-131, one iteration of the loop over p.stdout: a line
\* is read, then cancel_check; when it is set the process is stopped, the loop
\* left, and split_to_chunks (lines 217-220) raises KeyboardInterrupt
stream_line ==
    /\ pc = "stream"
    /\ proc.lines > 0
    /\ IF is_cancelled
       THEN /\ IF Alive(proc)
               THEN \E how \in {"terminated", "killed"} :
                        proc' = [Stopped(proc, how) EXCEPT !.lines = @ - 1]
               ELSE proc' = [proc EXCEPT !.lines = @ - 1]
            /\ w_proc' = "p"
            /\ Terminal(events, "cancelled", "")
       ELSE /\ proc' = [proc EXCEPT !.lines = @ - 1]
            /\ UNCHANGED <<w_proc, events, queued, pc>>
    /\ UNCHANGED <<selected_file, chk_chunking, spin_chunk, btn_choose, btn_start,
                   btn_cancel, worker>>
    /\ UNCHANGED <<input_file, use_chunking, chunk_seconds, w_cancel>>
    /\ UNCHANGED <<total_sec, chunks, i, elapsed, out_txt, chunks_dir, engineLog, written,
                   cancelAt, prior, probed>>

\* sorted(chunks_dir.glob("chunk_*.mp3"))
glob_chunks(dir) == dir

\* run_stream at end of output (the process has exited), then split_to_chunks
\* lines 217-224 and run lines 277-280
split_return ==
    /\ pc = "stream"
    /\ proc.lines = 0
    /\ proc.state = "exited"
    /\ w_proc' = "p"
    /\ IF split_result(is_cancelled, proc.rc) = "cancelled"
       THEN /\ Terminal(events, "cancelled", "")
            /\ UNCHANGED <<chunks, i, elapsed>>
       ELSE IF split_result(is_cancelled, proc.rc) = "error"
       THEN /\ Terminal(events, "error", "ffmpeg failed")
            /\ UNCHANGED <<chunks, i, elapsed>>
       ELSE /\ chunks' = glob_chunks(chunks_dir)
            /\ i' = 1
            /\ elapsed' = 0
            /\ pc' = IF glob_chunks(chunks_dir) = <<>> THEN "finish" ELSE "check"
            /\ UNCHANGED <<events, queued>>
    /\ UNCHANGED <<selected_file, chk_chunking, spin_chunk, btn_choose, btn_start,
                   btn_cancel, worker>>
    /\ UNCHANGED <<input_file, use_chunking, chunk_seconds, w_cancel>>
    /\ UNCHANGED <<total_sec, envVars, engineLog, written, cancelAt, prior, probed>>

\* ----------------------------------------------------------- the engine

LowerChars == <<"a", "b", "c", "d", "e", "f", "g", "h">>

UpperChars == <<"A", "B", "C", "D", "E", "F", "G", "H">>

\* The speech heard in chunk file number k: a letter naming the segment, in
\* lower case when the current worker's split wrote the file.
SegChar(kind, k) == IF kind = "this" THEN LowerChars[k] ELSE UpperChars[k]

\* What model.transcribe can return for audio whose speech is ch: a dict
\* without text, blank text (silence), or the text with Whisper's leading space.
EngineResults(ch) == {<<>>, [text |-> <<" ">>], [text |-> <<" ", ch>>]}

\* whisper_transcribe_to_text, line 145: (result.get("text") or "").strip()
whisper_transcribe_to_text(result) ==
    Strip(IF "text" \in DOMAIN result THEN result.text ELSE <<>>)

\* An entry of engineLog: the engine was called on segment seg ("whole": the
\* input file) of the given kind and returned text, or raised (ok = FALSE).
Call(seg, kind, ok, text) == [seg |-> seg, kind |-> kind, ok |-> ok, text |-> text]

\* run, line 293: int((audio_done_before / max(1e-6, total_sec)) * 100)
overall_at_start(idx, chunk_sec, total) == (((idx - 1) * chunk_sec) * 100) \div total

\* run, line 304: min(total_sec, i * chunk_sec)
processed_audio(idx, chunk_sec, total) == Min(total, idx * chunk_sec)

\* run, lines 305-306: int(overall_frac * 100)
overall_after(idx, chunk_sec, total) ==
    (processed_audio(idx, chunk_sec, total) * 100) \div total

\* run, lines 308-311: remaining / max(1e-6, processed_audio / elapsed), as an
\* int; an elapsed time of 0 is raised to 1e-6 and gives 0
eta_sec(idx, chunk_sec, total, el) ==
    (Max(0, total - processed_audio(idx, chunk_sec, total)) * el)
        \div processed_audio(idx, chunk_sec, total)

\* run, lines 290-295
PreChunkEvents ==
    <<Ev("status", <<"Processing chunk", i, Max(1, Len(chunks))>>),
      Ev("log", <<"Processing chunk", i, Max(1, Len(chunks)), "chunk", i - 1>>),
      Ev("overall", overall_at_start(i, chunk_seconds, total_sec)),
      Ev("eta", EtaEstimating)>>

\* run, lines 283-295: the check before a chunk, then the events before its
\* engine call
check ==
    /\ pc = "check"
    /\ IF is_cancelled
       THEN Terminal(events, "cancelled", "")
       ELSE /\ events' = events \o PreChunkEvents
            /\ pc' = "whisper_chunk"
            /\ UNCHANGED queued
    /\ UNCHANGED <<selected_file, chk_chunking, spin_chunk, btn_choose, btn_start,
                   btn_cancel, worker>>
    /\ UNCHANGED <<fieldVars, total_sec, chunks, i, elapsed, envVars, engineLog, written,
                   cancelAt, prior, probed>>

\* run, lines 303-312, after a chunk's engine call that took d seconds
PostChunkEvents(d) ==
    <<Ev("overall", overall_after(i, chunk_seconds, total_sec)),
      Ev("eta", fmt_eta(eta_sec(i, chunk_seconds, total_sec, elapsed + d)))>>

\* run, lines 298-312 and the loop step: the engine call on chunk i returns
\* or raises; its text is appended; progress is emitted
whisper_chunk ==
    /\ pc = "whisper_chunk"
    /\ \/ /\ engineLog' = Append(engineLog, Call(i, chunks[i], FALSE, <<>>))
          /\ Terminal(events, "error", "engine error")
          /\ UNCHANGED <<i, elapsed, out_txt, written>>
       \/ \E result \in EngineResults(SegChar(chunks[i], i)), d \in EngineSecs :
            LET text == whisper_transcribe_to_text(result) IN
            /\ engineLog' = Append(engineLog, Call(i, chunks[i], TRUE, text))
            /\ out_txt' = append_text(out_txt, text)
            /\ written' = written \o ChunkLine(text)
            /\ events' = events \o PostChunkEvents(d)
            /\ elapsed' = elapsed + d
            /\ i' = i + 1
            /\ pc' = IF i < Len(chunks) THEN "check" ELSE "finish"
            /\ UNCHANGED queued
    /\ UNCHANGED <<selected_file, chk_chunking, spin_chunk, btn_choose, btn_start,
                   btn_cancel, worker>>
    /\ UNCHANGED <<fieldVars, total_sec, chunks, chunks_dir, proc, cancelAt, prior, probed>>

\* A run whose final ETA reset is not preceded by overall 100.
FinalEvents_without_100 == <<Ev("eta", EtaZero)>>

\* run, lines 264-266 and 314-316
FinalEvents == <<Ev("overall", 100), Ev("eta", EtaZero)>>

\* A run that reads the cancellation flag once more after its loop.
finish_checks_cancel ==
    /\ pc = "finish"
    /\ IF is_cancelled
       THEN Terminal(events, "cancelled", "")
       ELSE Terminal(events \o FinalEvents, "done", "out_dir")
    /\ UNCHANGED <<selected_file, chk_chunking, spin_chunk, btn_choose, btn_start,
                   btn_cancel, worker>>
    /\ UNCHANGED <<fieldVars, total_sec, chunks, i, elapsed, envVars, engineLog, written,
                   cancelAt, prior, probed>>

\* run, lines 314-316: the loop is over
finish ==
    /\ pc = "finish"
    /\ Terminal(events \o FinalEvents, "done", "out_dir")
    /\ UNCHANGED <<selected_file, chk_chunking, spin_chunk, btn_choose, btn_start,
                   btn_cancel, worker>>
    /\ UNCHANGED <<fieldVars, total_sec, chunks, i, elapsed, envVars, engineLog, written,
                   cancelAt, prior, probed>>

\* run, lines 261-267: the whole-file engine call returns or raises
whisper_whole ==
    /\ pc = "whisper_whole"
    /\ \/ /\ engineLog' = Append(engineLog, Call(0, "whole", FALSE, <<>>))
          /\ Terminal(events, "error", "engine error")
          /\ UNCHANGED <<out_txt, written>>
       \/ \E result \in EngineResults("w") :
            LET text == whisper_transcribe_to_text(result) IN
            /\ engineLog' = Append(engineLog, Call(0, "whole", TRUE, text))
            /\ out_txt' = write_text(out_txt, text)
            /\ written' = text \o <<NL>>
            /\ Terminal(events \o FinalEvents, "done", "out_dir")
    /\ UNCHANGED <<selected_file, chk_chunking, spin_chunk, btn_choose, btn_start,
                   btn_cancel, worker>>
    /\ UNCHANGED <<fieldVars, total_sec, chunks, i, elapsed, chunks_dir, proc, cancelAt,
                   prior, probed>>

\* -------------------------------------------------------- specification

Next ==
    \/ choose_file
    \/ toggle_chunking
    \/ set_chunk_min
    \/ start_job
    \/ cancel_job
    \/ request_cancel_call
    \/ on_done
    \/ on_error
    \/ on_cancelled
    \/ run_start
    \/ probe
    \/ split_launch
    \/ proc_segment
    \/ proc_line
    \/ proc_exit
    \/ proc_hang
    \/ stream_line
    \/ split_return
    \/ check
    \/ whisper_chunk
    \/ whisper_whole
    \/ finish

Spec == Init /\ [][Next]_vars

TypeOK ==
    /\ pc \in {"idle", "start", "probe", "split", "stream", "check", "whisper_chunk",
               "whisper_whole", "finish", "returned"}
    /\ queued \in TerminalSigs \cup {None}
    /\ w_cancel \in BOOLEAN

\* ------------------------------------------------------------ properties

IsTerminal(e) == e.sig \in TerminalSigs

IsOverall(e) == e.sig = "overall"

TerminalEvents == SelectSeq(events, IsTerminal)

OverallEvents == SelectSeq(events, IsOverall)

\* The terminal signal the worker has emitted, or None.
Outcome == IF TerminalEvents = <<>> THEN None ELSE TerminalEvents[1].sig

\* The lines the first n engine calls of the log contribute to a transcript:
\* each non-empty text followed by a newline, in call order.
RECURSIVE LinesOf(_, _)
LinesOf(log, n) ==
    IF n = 0 THEN <<>>
    ELSE LinesOf(log, n - 1)
         \o (IF log[n].ok /\ log[n].text # <<>> THEN log[n].text \o <<NL>> ELSE <<>>)

\* The worker is past the removal of an earlier run's output file.
Running == pc \notin {"idle", "start"}

\* C1: every started job emits exactly one terminal signal: never two, of the
\* same or of different kinds, none before run returns, and exactly one once
\* run has returned, with or without chunking and whenever request_cancel ran.
C1_ExactlyOneTerminal ==
    /\ Len(TerminalEvents) <= 1
    /\ (pc = "returned") <=> (Len(TerminalEvents) = 1)
    /\ pc = "returned" => /\ IsTerminal(events[Len(events)])
                          /\ queued \in {None, Outcome}

C1_Witness ==
    /\ pc = "returned"
    /\ use_chunking
    /\ cancelAt.pc = "whisper_chunk"
    /\ Outcome = "cancelled"
    /\ Len(engineLog) = 2

\* C2: in a chunked run, when the flag is first set while the worker is between
\* the end of engine call N and its check before segment N+1 (N < number of
\* segments), the engine is called for no further segment, the run ends with
\* cancelled, and out_txt holds exactly the non-empty texts of segments 1..N
\* in order.
C2_CancelAfterN ==
    (use_chunking /\ cancelAt.pc = "check") =>
        /\ pc \in {"check", "returned"}
        /\ cancelAt.n < Len(chunks)
        /\ Len(engineLog) = cancelAt.n
        /\ \A k \in 1..Len(engineLog) : engineLog[k].seg = k /\ engineLog[k].ok
        /\ out_txt.content = LinesOf(engineLog, cancelAt.n)
        /\ cancelAt.n > 0 => out_txt.exists
        /\ pc = "returned" => Outcome = "cancelled"

C2_Witness ==
    /\ pc = "returned"
    /\ use_chunking
    /\ cancelAt.pc = "check"
    /\ cancelAt.n = 2
    /\ Len(chunks) = 3
    /\ Outcome = "cancelled"
    /\ out_txt.content = <<"a", NL, "b", NL>>

\* The flag was first set before the first chunk's engine call of a chunked
\* run began: before or during the probe, before or during the split, or
\* before the first pre-chunk check.
CancelledBeforeFirstChunk ==
    /\ use_chunking
    /\ cancelAt.pc \in {"start", "probe", "split", "stream", "check"}
    /\ cancelAt.n = 0

\* C3 as stated: a chunked run cancelled before its first engine call ends
\* with cancelled, without an engine call and without text in out_txt.
C3_Original ==
    (CancelledBeforeFirstChunk /\ pc = "returned") =>
        /\ Outcome = "cancelled"
        /\ engineLog = <<>>
        /\ out_txt.content = <<>>

\* C3 amended: a chunked run cancelled before its first engine call never
\* calls the engine and leaves no out_txt; it ends with cancelled, except
\* that it ends with error when the probe or the start of the splitting tool
\* raises, which happens before any check of the flag.
C3_CancelBeforeFirstChunk ==
    CancelledBeforeFirstChunk =>
        /\ engineLog = <<>>
        /\ Running => ~out_txt.exists
        /\ pc = "returned" =>
             \/ Outcome = "cancelled"
             \/ /\ Outcome = "error"
                /\ proc.state = "none"
                /\ TerminalEvents[1].val \in
                     {ProbeError(o) : o \in ProbeOutcomes \ {"ok"}} \cup {"ffmpeg not found"}

C3_Witness ==
    /\ pc = "returned"
    /\ CancelledBeforeFirstChunk
    /\ cancelAt.pc = "probe"
    /\ prior
    /\ proc.state = "exited"
    /\ proc.rc # 0
    /\ Outcome = "cancelled"

\* C4: a splitting process that is alive when cancellation is requested is
\* stopped by the cancellation and does not run to its own end, and the run
\* then ends with cancelled.
C4_SplitStoppedByCancel ==
    (cancelAt.pc = "stream" /\ cancelAt.alive) =>
        /\ proc.how # "own"
        /\ pc = "returned" => Outcome = "cancelled"

\* The run's splitting process, if it has one, wrote every segment of the
\* input and exited with status 0.
SplitComplete ==
    use_chunking => (proc.state = "exited" /\ proc.rc = 0 /\ proc.segs = Planned)

\* C5: the values emitted on overall never decrease within a run, and the
\* last one emitted before done is 100 (stated for the runs whose split
\* succeeded in full).
C5_OverallMonotoneTo100 ==
    SplitComplete =>
    /\ \A j \in 1..(Len(OverallEvents) - 1) :
         OverallEvents[j].val <= OverallEvents[j + 1].val
    /\ Outcome = "done" =>
         /\ OverallEvents # <<>>
         /\ OverallEvents[Len(OverallEvents)].val = 100

\* C6: every value emitted on overall lies in 0..100 (stated for the runs
\* whose split succeeded in full).
C6_OverallInRange ==
    SplitComplete =>
        \A j \in 1..Len(OverallEvents) : OverallEvents[j].val \in 0..100

\* C7: a chunked run whose splitting process exits with status 0 and leaves
\* no segment file ends with error, and never emits 100 on overall.
C7_NoSegmentsFails ==
    ( /\ pc = "returned"
      /\ use_chunking
      /\ ~w_cancel
      /\ proc.state = "exited"
      /\ proc.rc = 0
      /\ chunks_dir = <<>> ) =>
        /\ Outcome = "error"
        /\ \A j \in 1..Len(OverallEvents) : OverallEvents[j].val # 100

NoBlankLine(c) == \A k \in 1..Len(c) : c[k] = NL => (k > 1 /\ c[k - 1] # NL)

Newlines(c) == Cardinality({k \in 1..Len(c) : c[k] = NL})

NonEmptyResults == Cardinality({k \in 1..Len(engineLog) :
                                  engineLog[k].ok /\ engineLog[k].text # <<>>})

\* C8: an engine call that returns empty text is no failure and adds no line
\* to out_txt: the file has no blank line, and as many lines as engine calls
\* of this run returned non-empty text, with or without chunking.
C8_EmptyResultNoLine ==
    Running =>
        /\ NoBlankLine(out_txt.content)
        /\ Newlines(out_txt.content) = NonEmptyResults
        /\ (Outcome = "error" /\ engineLog # <<>>) => ~engineLog[Len(engineLog)].ok

\* C9: once a run is past its start, out_txt holds exactly the text this run
\* has written, whatever an earlier run left there; so it does when the run
\* ends with done, with or without chunking.
C9_RerunReplaces ==
    Running =>
        /\ out_txt.content = written
        /\ ~out_txt.exists => written = <<>>

C9_Witness ==
    /\ pc = "returned"
    /\ Outcome = "done"
    /\ use_chunking
    /\ prior
    /\ written = <<"a", NL>>
    /\ out_txt = File(<<"a", NL>>)

\* C10: when the engine call on segment k of a chunked run raises, the run
\* ends with error carrying the engine's message, the engine was called once
\* for each of the segments 1..k in order and is not called again, and
\* out_txt holds exactly the non-empty texts of segments 1..k-1 in order.
C10_EngineFailure ==
    (use_chunking /\ engineLog # <<>> /\ ~engineLog[Len(engineLog)].ok) =>
        /\ pc = "returned"
        /\ Outcome = "error"
        /\ TerminalEvents[1].val = "engine error"
        /\ \A k \in 1..Len(engineLog) :
             /\ engineLog[k].seg = k
             /\ k < Len(engineLog) => engineLog[k].ok
        /\ out_txt.content = LinesOf(engineLog, Len(engineLog) - 1)

C10_Witness ==
    /\ use_chunking
    /\ Len(engineLog) = 3
    /\ ~engineLog[3].ok
    /\ engineLog[2].text = <<>>
    /\ out_txt = File(<<"a", NL>>)
    /\ Outcome = "error"

IsEta(e) == e.sig = "eta"

EtaEvents == SelectSeq(events, IsEta)

\* C11: when the duration probe fails the job fails at once: the probe ran
\* once, run has returned with the error signal carrying the probe's message,
\* no split process and no engine call was started, no overall or eta value was
\* emitted, and no output file exists.
C11_ProbeFailureFails ==
    (probed # <<>> /\ probed[Len(probed)] # "ok") =>
        /\ Len(probed) = 1
        /\ pc = "returned"
        /\ Outcome = "error"
        /\ events = <<Ev("status", "Reading duration"),
                      Ev("error", ProbeError(probed[1]))>>
        /\ proc = NoProc
        /\ w_proc = None
        /\ engineLog = <<>>
        /\ OverallEvents = <<>>
        /\ EtaEvents = <<>>
        /\ ~out_txt.exists

\* ffprobe exits non-zero in a run that found the output file of an earlier run
C11_Witness ==
    /\ probed = <<"rc">>
    /\ prior
    /\ Outcome = "error"
    /\ ~out_txt.exists

IsNumericEta(e) == e.sig = "eta" /\ e.val # EtaEstimating

\* C12: no numeric ETA is emitted before a unit of work has completed: while no
\* engine call has returned every eta value is the estimating sentinel; with
\* chunking the first numeric ETA is there once the first chunk's call has
\* returned; without chunking a successful run emits exactly the sentinel and
\* then the terminal zero ETA.
C12_NoNumericEtaBeforeWork ==
    /\ (\A k \in 1..Len(engineLog) : ~engineLog[k].ok) =>
           \A j \in 1..Len(events) : ~IsNumericEta(events[j])
    /\ (use_chunking /\ engineLog # <<>> /\ engineLog[1].ok) =>
           /\ EtaEvents[1].val = EtaEstimating
           /\ Len(EtaEvents) >= 2
           /\ EtaEvents[2].val # EtaEstimating
    /\ (~use_chunking /\ Outcome = "done") =>
           EtaEvents = <<Ev("eta", EtaEstimating), Ev("eta", EtaZero)>>

IsChunkLog(e) == e.sig = "log" /\ e.val[1] = "Processing chunk"

\* The positions in events of the per-chunk log lines, in order.
ChunkLogPos == SelectSeq([j \in 1..Len(events) |-> j], LAMBDA j : IsChunkLog(events[j]))

SigsOf(evs) == [j \in 1..Len(evs) |-> evs[j].sig]

\* C13: the terminal signal is the last event of a job: no event of any kind
\* stands after it, and once it is emitted run has returned.  The events of the
\* chunks come in the order the chunks are worked on: the k-th per-chunk log
\* line names chunk k, and between the log lines of chunk k and chunk k + 1
\* stand exactly the overall and eta values before and after chunk k's engine
\* call and the status of chunk k + 1.
C13_TerminalIsLast ==
    /\ \A j \in 1..Len(events) : IsTerminal(events[j]) => j = Len(events)
    /\ Outcome # None => pc = "returned"
    /\ \A k \in 1..Len(ChunkLogPos) :
         /\ events[ChunkLogPos[k]].val[2] = k
         /\ k < Len(ChunkLogPos) =>
              SigsOf(SubSeq(events, ChunkLogPos[k] + 1, ChunkLogPos[k + 1] - 1))
                  = <<"overall", "eta", "overall", "eta", "status">>

\* a job of three chunks that ended with done, and a request_cancel after it
C13_Witness ==
    /\ Outcome = "done"
    /\ Len(ChunkLogPos) = 3
    /\ cancelAt.pc = "returned"
    /\ queued = None

\* C14: request_cancel can run at any moment and any number of times.  No call
\* emits an event, changes the queued outcome, moves run or touches the output
\* file; a call after the first changes nothing at all; a call after run has
\* returned changes nothing but the flag.
C14_CancelIdempotent ==
    [][(cancel_job \/ request_cancel_call) =>
          /\ events' = events
          /\ queued' = queued
          /\ out_txt' = out_txt
          /\ pc' = pc
          /\ w_cancel => UNCHANGED vars
          /\ pc = "returned" =>
                UNCHANGED <<guiVars, localVars, envVars, events, engineLog, written,
                            w_proc>>]_vars

\* the first request_cancel ran after done was emitted and the file written
C14_Witness ==
    /\ w_cancel
    /\ cancelAt.pc = "returned"
    /\ Outcome = "done"
    /\ out_txt.exists
    /\ out_txt.content # <<>>

\* ------------------------------------------ the ETA after a chunk, in isolation

MaxEtaChunk == 4

\* durations ffprobe reports, in seconds
EtaTotals == {1000, 4000, 20000}

\* chunk lengths start_job derives from spin_chunk (5 and 10 minutes)
EtaChunkSecs == {5 * 60, 10 * 60}

\* time.time() - start_all after a chunk, in seconds
EtaElapsed == {0, 30, 60, 3600}

\* run is in its loop: the engine call on chunk i has returned after elapsed
\* seconds of work on a file of total_sec seconds cut every chunk_seconds
InitEta ==
    /\ \E T \in EtaTotals, c \in EtaChunkSecs :
         /\ selected_file = <<T>>
         /\ input_file = <<T>>
         /\ total_sec = T
         /\ spin_chunk = c \div 60
         /\ chunk_seconds = c
    /\ i \in {k \in 1..MaxEtaChunk : k <= CeilDiv(total_sec, chunk_seconds)}
    /\ elapsed \in EtaElapsed
    /\ chk_chunking = TRUE
    /\ use_chunking = TRUE
    /\ btn_choose = FALSE
    /\ btn_start = FALSE
    /\ btn_cancel = TRUE
    /\ worker = TRUE
    /\ queued = None
    /\ w_cancel = FALSE
    /\ w_proc = "p"
    /\ pc = "whisper_chunk"
    /\ chunks = <<>>
    /\ out_txt = File(<<>>)
    /\ chunks_dir = <<>>
    /\ proc = NoProc
    /\ events = <<>>
    /\ engineLog = <<>>
    /\ written = <<>>
    /\ cancelAt = NeverCancelled
    /\ prior = FALSE
    /\ probed = <<"ok">>

\* run, lines 303-312: the progress and ETA emitted after chunk i
emit_eta ==
    /\ pc = "whisper_chunk"
    /\ events' = events \o PostChunkEvents(0)
    /\ pc' = "check"
    /\ UNCHANGED <<guiVars, fieldVars, total_sec, chunks, i, elapsed, envVars,
                   engineLog, written, cancelAt, prior, probed>>

NextEta == emit_eta

SpecEta == InitEta /\ [][NextEta]_vars

\* The last eta text emitted.
LastEta == EtaEvents[Len(EtaEvents)].val

\* (T - P) / (P / e) with P = min(T, i * c), in whole seconds
EtaOf(T, c, idx, e) ==
    LET P == IF idx * c < T THEN idx * c ELSE T
    IN  ((T - P) * e) \div P

TwoDigits(n) == <<DigitChars[(n \div 10) + 1], DigitChars[(n % 10) + 1]>>

\* x seconds as HH:MM:SS from one hour on and as MM:SS below, two digits a field
Padded(x) ==
    IF x >= 3600
    THEN TwoDigits(x \div 3600) \o <<":">> \o TwoDigits((x \div 60) % 60)
             \o <<":">> \o TwoDigits(x % 60)
    ELSE TwoDigits(x \div 60) \o <<":">> \o TwoDigits(x % 60)

\* x seconds as H:MM:SS from one hour on and as M:SS below
Unpadded(x) ==
    IF x >= 3600
    THEN Dec(x \div 3600) \o <<":">> \o TwoDigits((x \div 60) % 60)
             \o <<":">> \o TwoDigits(x % 60)
    ELSE Dec(x \div 60) \o <<":">> \o TwoDigits(x % 60)

EtaExample == total_sec = 1000 /\ chunk_seconds = 300 /\ i = 1 /\ elapsed = 30

\* C15 as stated: the ETA emitted after chunk i is (T - P) / (P / e) seconds
\* rendered as H:MM:SS from one hour on and as M:SS below, with or without the
\* "ETA: " prefix; for T = 1000, c = 300, i = 1, e = 30 it is rendered 1:10.
C15_Original ==
    EtaEvents # <<>> =>
        LET x == EtaOf(total_sec, chunk_seconds, i, elapsed) IN
        /\ LastEta \in {Unpadded(x), EtaPrefix \o Unpadded(x)}
        /\ EtaExample => LastEta \in {<<"1", ":", "1", "0">>,
                                      EtaPrefix \o <<"1", ":", "1", "0">>}

\* C15, amended: the ETA emitted after chunk i is (T - P) / (P / e) in whole
\* seconds, rendered after the prefix "ETA: " as HH:MM:SS from one hour on and
\* as MM:SS below, every field zero-padded to two digits; for T = 1000,
\* c = 300, i = 1, e = 30 it is 70 seconds, rendered "ETA: 01:10".
C15_EtaRendering ==
    EtaEvents # <<>> =>
        LET x == EtaOf(total_sec, chunk_seconds, i, elapsed) IN
        /\ LastEta = EtaPrefix \o Padded(x)
        /\ EtaExample =>
             /\ x = 70
             /\ LastEta = <<"E", "T", "A", ":", " ", "0", "1", ":", "1", "0">>

\* the ETA of the example has been emitted
C15_Witness ==
    /\ EtaExample
    /\ EtaEvents # <<>>
    /\ pc = "check"

\* C16: a request_cancel that first runs while an engine call is in progress
\* does not interrupt the call: the worker stays in the call until it returns,
\* the text it returns is written, no further engine call is started, and the
\* request takes effect at the check before the next chunk, so the job ends
\* with cancelled; when the call in progress is the last chunk's or the
\* whole-file call there is no further check and the job ends with done and
\* the complete output file.
C16_EngineCallNotInterrupted ==
    cancelAt.pc \in {"whisper_chunk", "whisper_whole"} =>
        LET n == cancelAt.n + 1
            last == ~use_chunking \/ n = Len(chunks)
        IN  /\ Len(engineLog) <= n
            /\ Len(engineLog) < n => pc = cancelAt.pc
            /\ Len(engineLog) = n => pc \in {"check", "finish", "returned"}
            /\ (Len(engineLog) = n /\ engineLog[n].ok) =>
                 /\ out_txt.exists
                 /\ use_chunking => out_txt.content = LinesOf(engineLog, n)
                 /\ ~use_chunking => out_txt.content = engineLog[n].text \o <<NL>>
                 /\ pc = "check" => ~last
                 /\ pc = "finish" => last
                 /\ pc = "returned" =>
                      Outcome = IF last THEN "done" ELSE "cancelled"

\* the first request_cancel ran during the engine call on the last of several
\* chunks, and the job ended with done and every chunk's text in the file
C16_Witness ==
    /\ cancelAt.pc = "whisper_chunk"
    /\ Len(chunks) >= 2
    /\ cancelAt.n + 1 = Len(chunks)
    /\ Outcome = "done"
    /\ Len(engineLog) = Len(chunks)
    /\ \A k \in 1..Len(engineLog) : engineLog[k].text # <<>>
    /\ out_txt.content = LinesOf(engineLog, Len(engineLog))

\* C17: with chunking the engine is called on the segments in ascending index
\* order, once each and without a gap: the k-th call of a job is on the k-th
\* segment of the list, and no more calls are made than the list has segments.
\* From the first call on, the output file holds exactly the non-empty texts of
\* the completed calls, each followed by a newline, in that order.
C17_AscendingAppendOnly ==
    (use_chunking /\ Running) =>
        /\ Len(engineLog) <= Len(chunks)
        /\ \A k \in 1..Len(engineLog) : engineLog[k].seg = k
        /\ \A k \in 1..Len(engineLog) : engineLog[k].kind = chunks[k]
        /\ \A k \in 1..(Len(engineLog) - 1) : engineLog[k].ok
        /\ pc \in {"whisper_chunk", "check"} => i = Len(engineLog) + 1
        /\ out_txt.content = LinesOf(engineLog, Len(engineLog))
        /\ out_txt.exists <=> engineLog # <<>> /\ engineLog[1].ok

\* three chunks transcribed, the second without text
C17_Witness ==
    /\ use_chunking
    /\ Len(engineLog) = 3
    /\ engineLog[1].text # <<>>
    /\ engineLog[2].ok
    /\ engineLog[2].text = <<>>
    /\ engineLog[3].text # <<>>
    /\ out_txt.content = engineLog[1].text \o <<NL>> \o engineLog[3].text \o <<NL>>

OverallValues == [j \in 1..Len(OverallEvents) |-> OverallEvents[j].val]

\* C18: without chunking no ffmpeg process is started and the engine is called
\* at most once, on the whole input; a run that ends with done has made that
\* one call and has emitted exactly the overall values 0 and 100; a run that
\* ends with error or cancelled has not emitted 100.
C18_NoChunkingSingleCall ==
    (~use_chunking /\ Running) =>
        /\ proc = NoProc
        /\ w_proc = None
        /\ chunks = <<>>
        /\ Len(engineLog) <= 1
        /\ \A k \in 1..Len(engineLog) : engineLog[k].seg = 0 /\ engineLog[k].kind = "whole"
        /\ Outcome = "done" =>
             /\ Len(engineLog) = 1
             /\ engineLog[1].ok
             /\ OverallValues = <<0, 100>>
        /\ Outcome \in {"error", "cancelled"} =>
             \A j \in 1..Len(OverallValues) : OverallValues[j] # 100
        /\ pc = "whisper_whole" => engineLog = <<>> /\ OverallValues = <<0>>

\* a whole-file job ended with done over an earlier job's chunk files
C18_Witness ==
    /\ ~use_chunking
    /\ Outcome = "done"
    /\ Len(engineLog) = 1
    /\ chunks_dir # <<>>
    /\ OverallValues = <<0, 100>>

\* A job is active from start_job until the handler of its terminal signal
\* has run.
JobActive == worker /\ (pc \notin {"idle", "returned"} \/ queued # None)

\* C19: at most one job is active per window.  While a job is active Start and
\* Choose are disabled and Cancel is enabled, so that start_job, which takes
\* the enabled Start button, cannot create a second worker; when no job is
\* active Choose is enabled again, Cancel is disabled and Start is enabled
\* exactly if a file has been chosen.
C19_OneJobAtATime ==
    /\ JobActive => ~btn_start /\ ~btn_choose /\ btn_cancel
    /\ ~JobActive => /\ btn_choose
                     /\ ~btn_cancel
                     /\ btn_start <=> selected_file # <<>>
    /\ queued # None => pc = "returned" /\ queued = Outcome
    /\ ~worker => pc = "idle"

\* a later job is at work, and its terminal signal is not yet emitted, in a
\* window that has run a chunked job before
C19_Witness ==
    /\ JobActive
    /\ pc = "whisper_whole"
    /\ chunks_dir # <<>>
    /\ \A k \in 1..Len(chunks_dir) : chunks_dir[k] = "earlier"
    /\ ~btn_start
    /\ btn_cancel

\* C20: a chunked run that shares its output directory with earlier runs
\* transcribes exactly the segments its own splitting process wrote: no chunk
\* file left by an earlier run is ever handed to the engine, and a run that
\* ends with done has made as many engine calls as its own process wrote
\* segments (stated for the runs whose split succeeded in full).
C20_OwnSegmentsOnly ==
    (use_chunking /\ Running /\ SplitComplete) =>
        /\ \A k \in 1..Len(engineLog) : engineLog[k].kind = "this"
        /\ Outcome = "done" => Len(engineLog) = proc.segs

====
